---- MODULE Spec2Model ----
(***************************************************************************)
(* A model of cs50.SQL (src/src/cs50/sql.py): the literal rendering of     *)
(* bound parameters (UserDefinedType.process_literal_param) and            *)
(* SQL.execute, which inlines the parameters, sends the statement to the   *)
(* engine and shapes the result by the statement's leading keyword.        *)
(*                                                                         *)
(* Python values are records [kind, v]: kind is the name of the value's    *)
(* class and v its components as integers (a str is its character codes).  *)
(* Python strings (statement text, rendered literals) are sequences of     *)
(* tokens, each token a TLA+ string.                                       *)
(***************************************************************************)
EXTENDS Integers, Sequences, FiniteSets, TLC

VARIABLES
    engine,    \* self.engine: the handle made by __init__ (its url's backend)
    filters,   \* the process-wide warnings filters (warnings.filters), front first
    table,     \* the database: the rows of one table, id -> val (val UNIQUE NOT NULL)
    seq,       \* the database: the last key its key generator handed out
    lastval,   \* the database session of the engine's pooled connection: its LASTVAL
    pc,        \* per caller: "idle", or "lastval" between INSERT and SELECT LASTVAL()
    pending,   \* per caller in "lastval": the call it is in the middle of
    last,      \* the call of execute that completed last, with what it returned
    arg,       \* rendering on its own: the parameter handed to execute
    literal,   \* rendering on its own: what the parameter was rendered as
    rpc        \* rendering on its own: "start" or "done"

vars == <<engine, filters, table, seq, lastval, pc, pending, last, arg, literal, rpc>>

----------------------------------------------------------------------------
(* Bounds *)

MaxStrLen == 2      \* longest str value
MaxListLen == 2     \* longest list parameter
MaxSeq == 2         \* keys the database generates before INSERT is cut off

----------------------------------------------------------------------------
(* Python values *)

Val(k, v) == [kind |-> k, v |-> v]

RECURSIVE SeqsUpTo(_, _)
SeqsUpTo(S, n) ==
    IF n = 0 THEN {<<>>}
    ELSE LET shorter == SeqsUpTo(S, n - 1)
         IN  shorter \cup {Append(s, x) : s \in {t \in shorter : Len(t) = n - 1}, x \in S}

Dates == {<<2020, 1, 2>>, <<1999, 12, 31>>}
Times == {<<0, 0, 0>>, <<13, 5, 9>>}
CharCodes == {39, 97}      \* the quote ' and the letter a

BoolValues     == {Val("bool", <<b>>) : b \in {0, 1}}
DateValues     == {Val("date", d) : d \in Dates}
DatetimeValues == {Val("datetime", d \o t) : d \in Dates, t \in Times}
TimeValues     == {Val("time", t) : t \in Times}
FloatValues    == {Val("float", f) : f \in {<<1, 5>>, <<0, 25>>}}
IntValues      == {Val("int", <<n>>) : n \in {-1, 0, 7}}
StrValues      == {Val("str", s) : s \in SeqsUpTo(CharCodes, MaxStrLen)}
None           == Val("NoneType", <<>>)
Bytes          == Val("bytes", <<>>)
Null           == Val("Null", <<>>)      \* sqlalchemy.sql.null()

SupportedKinds == {"bool", "date", "datetime", "time", "float", "int", "str", "NoneType"}

Scalars == BoolValues \cup DateValues \cup DatetimeValues \cup TimeValues
           \cup FloatValues \cup IntValues \cup StrValues \cup {None, Bytes}

\* A parameter of execute: one value, or a list of values.
Scalar(x) == [isList |-> FALSE, elems |-> <<x>>]
List(xs)  == [isList |-> TRUE, elems |-> xs]
Params == {Scalar(x) : x \in Scalars} \cup {List(xs) : xs \in SeqsUpTo(Scalars, MaxListLen)}

\* The classes a value is an instance of: bool subclasses int, and
\* datetime.datetime subclasses datetime.date.
Classes(value) ==
    CASE value.kind = "bool"     -> {"bool", "int"}
      [] value.kind = "datetime" -> {"datetime", "date"}
      [] OTHER                   -> {value.kind}

isinstance(value, cls) == cls \in Classes(value)

----------------------------------------------------------------------------
(* Python strings as token sequences *)

Chr(c) == IF c = 39 THEN "'" ELSE "a"
Ord(s) == IF s = "'" THEN 39 ELSE 97

Chars(v) == [i \in 1..Len(v) |-> Chr(v[i])]

Pad2(n) == IF n < 10 THEN "0" \o ToString(n) ELSE ToString(n)

\* value.strftime(fmt) for the three formats the code uses.
strftime(value, fmt) ==
    LET v == value.v
        t == IF value.kind = "time" THEN v ELSE SubSeq(v, 4, 6)
    IN  CASE fmt = "%Y-%m-%d" ->
               <<ToString(v[1]), "-", Pad2(v[2]), "-", Pad2(v[3])>>
          [] fmt = "%Y-%m-%d %H:%M:%S" ->
               <<ToString(v[1]), "-", Pad2(v[2]), "-", Pad2(v[3]), " ",
                 Pad2(v[4]), ":", Pad2(v[5]), ":", Pad2(v[6])>>
          [] fmt = "%H:%M:%S" ->
               <<Pad2(t[1]), ":", Pad2(t[2]), ":", Pad2(t[3])>>

----------------------------------------------------------------------------
(* sqlalchemy's literal processors, for the dialect compile() uses when it  *)
(* is given no bind: quotes are doubled in strings, Booleans are the words  *)
(* true and false.                                                          *)

Lit(type, text) == [ok |-> TRUE, types |-> <<type>>, text |-> text]
Raise(exc)      == [ok |-> FALSE, types |-> <<exc>>, text |-> <<>>]

RECURSIVE DoubleQuotes(_)
DoubleQuotes(s) ==
    IF s = <<>> THEN <<>>
    ELSE (IF Head(s) = "'" THEN <<"'", "'">> ELSE <<Head(s)>>) \o DoubleQuotes(Tail(s))

BooleanLiteral(v) == Lit("Boolean", IF v[1] = 1 THEN <<"true">> ELSE <<"false">>)
StringLiteral(s)  == Lit("String", <<"'">> \o DoubleQuotes(s) \o <<"'">>)
FloatLiteral(v)   == Lit("Float", <<ToString(v[1]), ".", ToString(v[2])>>)
IntegerLiteral(v) == Lit("Integer", <<ToString(v[1])>>)
NullLiteral       == Lit("NullType", <<"NULL">>)

----------------------------------------------------------------------------
(* UserDefinedType.process_literal_param *)

\* The interpreter is Python 3 (sys.version_info.major), where no type long exists.
Python3 == TRUE

\* A variant of process that lets an unsupported value through as a string.
process_lenient(value) ==
    IF isinstance(value, "bool") THEN BooleanLiteral(value.v)
    ELSE IF isinstance(value, "date") THEN StringLiteral(strftime(value, "%Y-%m-%d"))
    ELSE IF isinstance(value, "time") THEN StringLiteral(strftime(value, "%H:%M:%S"))
    ELSE IF isinstance(value, "float") THEN FloatLiteral(value.v)
    ELSE IF isinstance(value, "int") THEN IntegerLiteral(value.v)
    ELSE IF isinstance(value, "str") THEN StringLiteral(Chars(value.v))
    ELSE IF isinstance(value, "Null") THEN NullLiteral
    ELSE StringLiteral(<<value.kind>>)

\* process(value): render a literal value, escaping as needed. The tests run
\* in the order the code writes them.
process(value) ==
    IF isinstance(value, "bool") THEN
        BooleanLiteral(value.v)
    ELSE IF isinstance(value, "date") THEN
        StringLiteral(strftime(value, "%Y-%m-%d"))
    ELSE IF isinstance(value, "datetime") THEN
        StringLiteral(strftime(value, "%Y-%m-%d %H:%M:%S"))
    ELSE IF isinstance(value, "time") THEN
        StringLiteral(strftime(value, "%H:%M:%S"))
    ELSE IF isinstance(value, "float") THEN
        FloatLiteral(value.v)
    ELSE IF isinstance(value, "int") THEN
        IntegerLiteral(value.v)
    ELSE IF ~Python3 /\ isinstance(value, "long") THEN
        IntegerLiteral(value.v)
    ELSE IF isinstance(value, "str") THEN
        StringLiteral(Chars(value.v))
    ELSE IF isinstance(value, "Null") THEN
        NullLiteral
    ELSE
        Raise("RuntimeError")

\* ", ".join(parts), for parts that all rendered.
RECURSIVE Join(_)
Join(parts) ==
    IF parts = <<>> THEN [ok |-> TRUE, types |-> <<>>, text |-> <<>>]
    ELSE IF Len(parts) = 1 THEN parts[1]
    ELSE LET rest == Join(Tail(parts))
         IN  [ok |-> TRUE,
              types |-> parts[1].types \o rest.types,
              text |-> parts[1].text \o <<", ">> \o rest.text]

\* process_literal_param(value, dialect): a list renders element by element,
\* and the first element that cannot be rendered raises.
process_literal_param(param) ==
    IF param.isList THEN
        LET parts == [i \in 1..Len(param.elems) |-> process(param.elems[i])]
        IN  IF \E i \in 1..Len(parts) : ~parts[i].ok
            THEN Raise("RuntimeError")
            ELSE Join(parts)
    ELSE process(param.elems[1])

\* execute's loop over params: a parameter that is None becomes
\* sqlalchemy.sql.null(); any other value, a list included, is bound as it is.
BindValue(param) ==
    IF ~param.isList /\ param.elems[1] = None THEN Scalar(Null) ELSE param

\* What statement.compile(literal_binds) puts in the place of the parameter.
RenderParam(param) == process_literal_param(BindValue(param))

----------------------------------------------------------------------------
(* Rendering on its own: a parameter is drawn, then rendered.              *)

NotRendered == [ok |-> FALSE, types |-> <<>>, text |-> <<>>]

Render ==
    /\ rpc = "start"
    /\ literal' = RenderParam(arg)
    /\ rpc' = "done"
    /\ UNCHANGED <<engine, filters, table, seq, lastval, pc, pending, last, arg>>

----------------------------------------------------------------------------
(* Statements *)

Backends == {"sqlite", "postgresql"}
Callers  == {1, 2}
Vals     == {1, 2}      \* the values the table's val column takes
UpdTo    == CHOOSE v \in Vals : \A w \in Vals : w <= v     \* UPDATE sets val to this value

\* The text handed to execute: optional leading whitespace, the leading
\* keyword, the token that follows it, and the rest of the statement, which
\* ends in the placeholder :v.
\*   SELECT: SELECT id, val FROM t WHERE val IN (:v)   (or SELECT(id) ...)
\*   INSERT: INSERT INTO t (val) VALUES (:v)
\*   UPDATE: UPDATE t SET val = UpdTo WHERE val IN (:v)
\*   DELETE: DELETE FROM t WHERE val IN (:v)
\*   CREATE: any other statement; it leaves the table alone
Texts ==
    {<<"SELECT", " ", ":v">>, <<" ", "select", "\n", ":v">>, <<"SELECT", "(", ":v">>,
     <<"INSERT", " ", ":v">>, <<"UPDATE", " ", ":v">>, <<"\n", "DELETE", " ", ":v">>,
     <<"DELETE", "(", ":v">>, <<"CREATE", " ", ":v">>}

One == Val("int", <<1>>)
Two == Val("int", <<2>>)
ExecParams == {Scalar(One), Scalar(Two), Scalar(None), Scalar(Bytes), List(<<One, Bytes>>)}

IsSpace(tok) == tok \in {" ", "\t", "\n"}

Upper(tok) == IF tok = "select" THEN "SELECT" ELSE tok

RECURSIVE LStrip(_)
LStrip(toks) ==
    IF toks # <<>> /\ IsSpace(Head(toks)) THEN LStrip(Tail(toks)) ELSE toks

\* re.search(r"^\s*(?:KW1|KW2)\s+", statement, re.I)
Search(kws, statement) ==
    LET body == LStrip(statement)
    IN  /\ Len(body) >= 2
        /\ Upper(body[1]) \in kws
        /\ IsSpace(body[2])

\* sqlalchemy.text(text), bindparams and compile(literal_binds): the
\* placeholder is replaced by the rendered parameter, or rendering raises.
Compile(text, param) ==
    LET r == RenderParam(param)
    IN  IF r.ok
        THEN [ok |-> TRUE, statement |-> SubSeq(text, 1, Len(text) - 1) \o r.text]
        ELSE [ok |-> FALSE, statement |-> <<>>]

----------------------------------------------------------------------------
(* The database behind the engine *)

\* What the database reads the statement as: its keyword, whatever follows it.
Kind(statement) == Upper(LStrip(statement)[1])

\* A keyword must be followed by whitespace, except SELECT, which a
\* parenthesis may follow.
WellFormed(statement) ==
    LET body == LStrip(statement)
    IN  IsSpace(body[2]) \/ (Kind(statement) = "SELECT" /\ body[2] = "(")

\* The literals of the statement, as the database reads them.
Items(statement) ==
    LET body == LStrip(statement)
    IN  SelectSeq(SubSeq(body, 3, Len(body)), LAMBDA tok : tok \notin {", ", "'"})

NumOf(tok) == IF \E n \in Vals : ToString(n) = tok
              THEN CHOOSE n \in Vals : ToString(n) = tok
              ELSE 0

\* The values a WHERE val IN (...) matches: NULL matches nothing.
Wanted(statement) ==
    LET items == Items(statement)
    IN  {NumOf(items[i]) : i \in {j \in 1..Len(items) : items[j] # "NULL"}}

Matched(tbl, statement) == {id \in DOMAIN tbl : tbl[id] \in Wanted(statement)}

RECURSIVE SortedIds(_)
SortedIds(ids) ==
    IF ids = {} THEN <<>>
    ELSE LET m == CHOOSE x \in ids : \A y \in ids : x <= y
         IN  <<m>> \o SortedIds(ids \ {m})

RECURSIVE RowsOf(_, _)
RowsOf(tbl, ids) ==
    IF ids = <<>> THEN <<>>
    ELSE <<Head(ids), tbl[Head(ids)]>> \o RowsOf(tbl, Tail(ids))

Injective(f) == \A a, b \in DOMAIN f : f[a] = f[b] => a = b

Put(tbl, id, val) == [x \in DOMAIN tbl \cup {id} |-> IF x = id THEN val ELSE tbl[x]]

Failed(exc, tbl, sq) ==
    [exc |-> exc, table |-> tbl, seq |-> sq, rows |-> <<>>, lastrowid |-> 0, rowcount |-> 0]

\* The statement run against the table: the exception the driver raises
\* ("" for none), the table and key generator afterwards, and the result's
\* rows, lastrowid and rowcount.
Run(statement, tbl, sq, fail) ==
    LET kind  == Kind(statement)
        items == Items(statement)
        hit   == Matched(tbl, statement)
        upd   == [id \in DOMAIN tbl |-> IF id \in hit THEN UpdTo ELSE tbl[id]]
    IN  IF fail \/ ~WellFormed(statement) THEN Failed("OperationalError", tbl, sq)
        ELSE IF kind = "SELECT" THEN
            [exc |-> "", table |-> tbl, seq |-> sq,
             rows |-> RowsOf(tbl, SortedIds(hit)), lastrowid |-> 0, rowcount |-> 0]
        ELSE IF kind = "INSERT" THEN
            IF Len(items) # 1 THEN Failed("OperationalError", tbl, sq)
            ELSE IF items[1] = "NULL" THEN Failed("IntegrityError", tbl, sq)
            ELSE IF \E id \in DOMAIN tbl : tbl[id] = NumOf(items[1])
                 THEN Failed("IntegrityError", tbl, sq)
            ELSE [exc |-> "", table |-> Put(tbl, sq + 1, NumOf(items[1])), seq |-> sq + 1,
                  rows |-> <<>>, lastrowid |-> sq + 1, rowcount |-> 1]
        ELSE IF kind = "UPDATE" THEN
            IF ~Injective(upd) THEN Failed("IntegrityError", tbl, sq)
            ELSE [exc |-> "", table |-> upd, seq |-> sq,
                  rows |-> <<>>, lastrowid |-> 0, rowcount |-> Cardinality(hit)]
        ELSE IF kind = "DELETE" THEN
            [exc |-> "", table |-> [id \in DOMAIN tbl \ hit |-> tbl[id]], seq |-> sq,
             rows |-> <<>>, lastrowid |-> 0, rowcount |-> Cardinality(hit)]
        ELSE [exc |-> "", table |-> tbl, seq |-> sq,
              rows |-> <<>>, lastrowid |-> 0, rowcount |-> 0]

----------------------------------------------------------------------------
(* SQL.__init__ and SQL.execute *)

DefaultFilters == <<"default", "ignore">>     \* the interpreter's filters at start-up

\* warnings.filterwarnings(action): the filter goes to the front of the
\* process-wide list, and an equal filter already in the list is removed.
filterwarnings(fs, action) ==
    <<action>> \o SelectSeq(fs, LAMBDA f : f # action)

Res(tag, val) == [tag |-> tag, val |-> val]

NoRun == Failed("", <<>>, 0)

\* A record of one call: its arguments, what it returned (or raised: exc),
\* how many statements it sent to the engine, and what the driver's result
\* object of its statement held (lastrowid: the key the statement generated).
Call(text, param, result, exc, sent, r) ==
    [text |-> text, param |-> param, result |-> result, exc |-> exc, sent |-> sent,
     rows |-> r.rows, lastrowid |-> r.lastrowid, rowcount |-> r.rowcount]

NoCall == Call(<<>>, List(<<>>), Res("none", <<>>), "", 0, NoRun)

\* A handler that lets every exception through.
HandleException_reraise(exc) == Res("raise", <<>>)

\* A handler that swallows every exception.
HandleException_swallow(exc) == Res("None", <<>>)

\* The except clauses: IntegrityError becomes None, anything else is raised.
HandleException(exc) ==
    IF exc = "IntegrityError" THEN Res("None", <<>>) ELSE Res("raise", <<>>)

\* The INSERT branch on postgresql: the key is fetched by a second statement.
NeedsLastval(statement) ==
    /\ ~Search({"SELECT"}, statement)
    /\ Search({"INSERT"}, statement)
    /\ engine.backend = "postgresql"

\* The result of a statement that ran without an exception, by the regular
\* expressions tried in the code's order.
Classify(statement, r) ==
    IF Search({"SELECT"}, statement) THEN Res("rows", r.rows)
    ELSE IF Search({"INSERT"}, statement) THEN Res("key", <<r.lastrowid>>)
    ELSE IF Search({"DELETE", "UPDATE"}, statement) THEN Res("count", <<r.rowcount>>)
    ELSE Res("True", <<>>)

\* execute(text, v=param) by caller t; fail says whether the engine's
\* connection is down.
Execute(t, text, param, fail) ==
    /\ pc[t] = "idle"
    /\ filters' = filterwarnings(filters, "error")
    /\ LET compiled == Compile(text, param)
       IN  IF ~compiled.ok THEN
               /\ last' = Call(text, param, HandleException("RuntimeError"),
                               "RuntimeError", 0, NoRun)
               /\ UNCHANGED <<table, seq, lastval, pc, pending>>
           ELSE
               LET r == Run(compiled.statement, table, seq, fail)
               IN  /\ r.seq <= MaxSeq
                   /\ table' = r.table
                   /\ seq' = r.seq
                   /\ lastval' = IF engine.backend = "postgresql" /\ r.lastrowid # 0
                                 THEN r.lastrowid
                                 ELSE lastval
                   /\ IF r.exc # "" THEN
                          /\ last' = Call(text, param, HandleException(r.exc), r.exc, 1, r)
                          /\ UNCHANGED <<pc, pending>>
                      ELSE IF NeedsLastval(compiled.statement) THEN
                          /\ pc' = [pc EXCEPT ![t] = "lastval"]
                          /\ pending' = [pending EXCEPT
                                           ![t] = Call(text, param, Res("none", <<>>), "", 1, r)]
                          /\ UNCHANGED last
                      ELSE
                          /\ last' = Call(text, param, Classify(compiled.statement, r), "", 1, r)
                          /\ UNCHANGED <<pc, pending>>
    /\ UNCHANGED <<engine, arg, literal, rpc>>

\* The rest of execute after an INSERT on postgresql: SELECT LASTVAL() goes
\* to the engine as a statement of its own; a session that generated no key
\* yet has no LASTVAL, and the statement fails.
Lastval(t, fail) ==
    /\ pc[t] = "lastval"
    /\ LET exc == IF fail \/ lastval = 0 THEN "OperationalError" ELSE ""
           res == IF exc # "" THEN HandleException(exc) ELSE Res("key", <<lastval>>)
       IN  last' = [pending[t] EXCEPT !.result = res, !.exc = exc, !.sent = 2]
    /\ pc' = [pc EXCEPT ![t] = "idle"]
    /\ pending' = [pending EXCEPT ![t] = NoCall]
    /\ UNCHANGED <<engine, filters, table, seq, lastval, arg, literal, rpc>>

\* SQL(url): the state after construction, before any call.
Init ==
    /\ engine \in {[backend |-> b] : b \in Backends}
    /\ filters = DefaultFilters
    /\ table = <<>>
    /\ seq = 0
    /\ lastval = 0
    /\ pc = [t \in Callers |-> "idle"]
    /\ pending = [t \in Callers |-> NoCall]
    /\ last = NoCall
    /\ arg = List(<<>>)
    /\ literal = NotRendered
    /\ rpc = "off"

Next ==
    \/ \E t \in Callers, text \in Texts, param \in ExecParams, fail \in BOOLEAN :
          Execute(t, text, param, fail)
    \/ \E t \in Callers, fail \in BOOLEAN : Lastval(t, fail)

Spec == Init /\ [][Next]_vars

InitRender ==
    /\ engine = [backend |-> "sqlite"]
    /\ filters = DefaultFilters
    /\ table = <<>>
    /\ seq = 0
    /\ lastval = 0
    /\ pc = [t \in Callers |-> "idle"]
    /\ pending = [t \in Callers |-> NoCall]
    /\ last = NoCall
    /\ arg \in Params
    /\ literal = NotRendered
    /\ rpc = "start"

NextRender == Render

SpecRender == InitRender /\ [][NextRender]_vars

----------------------------------------------------------------------------
(* What a literal denotes once stored and selected again *)

IntOf(tok)  == CHOOSE n \in -9..9999 : ToString(n) = tok
Pad2Of(tok) == CHOOSE n \in 0..99 : Pad2(n) = tok

RECURSIVE UndoubleQuotes(_)
UndoubleQuotes(s) ==
    IF s = <<>> THEN <<>>
    ELSE IF Len(s) >= 2 /\ s[1] = "'" /\ s[2] = "'" THEN <<"'">> \o UndoubleQuotes(SubSeq(s, 3, Len(s)))
    ELSE <<Head(s)>> \o UndoubleQuotes(Tail(s))

\* The string a quoted literal denotes.
Unquote(text) == UndoubleQuotes(SubSeq(text, 2, Len(text) - 1))

DateOf(s) == <<IntOf(s[1]), Pad2Of(s[3]), Pad2Of(s[5])>>
TimeOf(s) == <<Pad2Of(s[1]), Pad2Of(s[3]), Pad2Of(s[5])>>

\* The value of class kind read back from a column the literal was stored
\* in; a date without a time of day reads back as midnight of that date.
Reselect(kind, text) ==
    CASE kind = "bool"     -> IF text = <<"true">> THEN <<1>> ELSE <<0>>
      [] kind = "int"      -> <<IntOf(text[1])>>
      [] kind = "float"    -> <<IntOf(text[1]), IntOf(text[3])>>
      [] kind = "str"      -> LET s == Unquote(text) IN [i \in 1..Len(s) |-> Ord(s[i])]
      [] kind = "date"     -> DateOf(Unquote(text))
      [] kind = "time"     -> TimeOf(Unquote(text))
      [] kind = "datetime" -> LET s == Unquote(text)
                              IN  IF Len(s) = 5 THEN DateOf(s) \o <<0, 0, 0>>
                                  ELSE DateOf(s) \o TimeOf(SubSeq(s, 7, 11))
      [] OTHER             -> <<>>

\* The rule the dispatch writes for each kind of value.
OwnRule(value) ==
    CASE value.kind = "bool"     -> BooleanLiteral(value.v)
      [] value.kind = "date"     -> StringLiteral(strftime(value, "%Y-%m-%d"))
      [] value.kind = "datetime" -> StringLiteral(strftime(value, "%Y-%m-%d %H:%M:%S"))
      [] value.kind = "time"     -> StringLiteral(strftime(value, "%H:%M:%S"))
      [] value.kind = "float"    -> FloatLiteral(value.v)
      [] value.kind = "int"      -> IntegerLiteral(value.v)
      [] value.kind = "str"      -> StringLiteral(Chars(value.v))
      [] value.kind = "NoneType" -> NullLiteral

----------------------------------------------------------------------------
(* Properties *)

Completed == last.text # <<>>

LeadingKeyword == Kind(last.text)

Unsupported(param) ==
    \E i \in 1..Len(param.elems) : param.elems[i].kind \notin SupportedKinds

RenderedScalar == rpc = "done" /\ ~arg.isList /\ arg.elems[1].kind \in SupportedKinds

\* C1: a call of execute whose statement ran without error returns the
\* result chosen by the statement's leading keyword (any case, leading
\* whitespace ignored): SELECT the rows, INSERT the new row's key, UPDATE and
\* DELETE the number of rows affected, anything else True.
C1_ShapeByLeadingKeyword ==
    (Completed /\ last.exc = "") =>
        CASE LeadingKeyword = "SELECT" -> last.result = Res("rows", last.rows)
          [] LeadingKeyword = "INSERT" -> last.result = Res("key", <<last.lastrowid>>)
          [] LeadingKeyword \in {"UPDATE", "DELETE"} ->
                 last.result = Res("count", <<last.rowcount>>)
          [] OTHER -> last.result = Res("True", <<>>)

\* C2: a call whose statement violates an integrity constraint returns None
\* and raises nothing.
C2_IntegrityErrorGivesNone ==
    (Completed /\ last.exc = "IntegrityError") => last.result = Res("None", <<>>)

C2_Witness ==
    /\ Completed
    /\ last.exc = "IntegrityError"
    /\ LeadingKeyword = "INSERT"
    /\ engine.backend = "postgresql"
    /\ last.result.tag = "None"

\* C3: a call that fails for any reason other than an integrity violation
\* (bad SQL, unsupported parameter, connection down) raises: it returns no
\* normal result.
C3_OtherFailuresRaise ==
    (Completed /\ last.exc \notin {"", "IntegrityError"}) => last.result = Res("raise", <<>>)

C3_Witness ==
    /\ Completed
    /\ last.exc = "OperationalError"
    /\ last.sent = 1
    /\ last.result.tag = "raise"

\* C4: the literal rendered for a value of a supported scalar kind denotes
\* the same value when it is stored and selected again.
C4_RenderingRoundTrips ==
    RenderedScalar =>
        /\ literal.ok
        /\ Reselect(arg.elems[1].kind, literal.text) = arg.elems[1].v

\* C5: a statement whose leading keyword is SELECT and that ran without error
\* returns the sequence of its rows, whatever follows the keyword.
C5_SelectReturnsRows ==
    (Completed /\ LeadingKeyword = "SELECT" /\ last.exc = "") => last.result.tag = "rows"

\* C6: a successful INSERT returns the key generated for the row that this
\* call inserted, whatever other calls ran on the engine meanwhile.
C6_InsertReturnsOwnKey ==
    (Completed /\ LeadingKeyword = "INSERT" /\ last.exc = "" /\ last.lastrowid # 0) =>
        last.result.val = <<last.lastrowid>>

\* C7: no call of execute changes the process-wide warnings filters or the
\* instance's engine attribute.
C7_NoSharedStateChanged == [][filters' = filters /\ engine' = engine]_vars

\* C8: a call with a parameter (or list element) of an unsupported kind
\* raises, sends no statement to the engine and leaves the database as it was.
C8_UnsupportedRejectedBeforeExecution ==
    [][(pc' = pc /\ Unsupported(last'.param)) =>
          /\ last'.result = Res("raise", <<>>)
          /\ last'.sent = 0
          /\ table' = table /\ seq' = seq /\ lastval' = lastval]_vars

C8_Witness ==
    /\ Completed
    /\ last.param.isList
    /\ Unsupported(last.param)
    /\ last.result.tag = "raise"
    /\ last.sent = 0
    /\ table # <<>>

\* C9: a value of a supported kind is rendered by the rule written for its
\* own kind, whatever classes its class derives from.
C9_RenderedByOwnRule ==
    RenderedScalar => literal = OwnRule(arg.elems[1])

\* C10: a list parameter renders as its elements' renderings joined by ", ",
\* each element rendered as the same value is when passed on its own; so a
\* list whose elements are all accepted on their own is accepted.
C10_ListRendersAsItsScalars ==
    (rpc = "done" /\ arg.isList) =>
        LET parts == [i \in 1..Len(arg.elems) |-> RenderParam(Scalar(arg.elems[i]))]
        IN  IF \A i \in 1..Len(parts) : parts[i].ok
            THEN literal = Join(parts)
            ELSE ~literal.ok

====
